---- MODULE Spec2Model ----
(***************************************************************************)
(* A model of simple_logger/logger.py: the DuplicateFilter and             *)
(* RedactingFilter logging filters, SimpleLogger.hash, and the get_logger  *)
(* configurator with its process-wide LOGGERS registry.                    *)
(*                                                                         *)
(* Python strings are modelled as sequences of one-character strings, so   *)
(* that substring search, str.replace and re.sub are computed character    *)
(* by character.  Python's None is the empty tuple.                        *)
(***************************************************************************)
EXTENDS Integers, Sequences, FiniteSets, TLC

VARIABLES
    \* ---- one DuplicateFilter instance fed with records (SpecDup)
    dup,          \* the instance's attributes (a map from attribute name to value)
    evaluated,    \* the records passed to dup's filter(), in order
    returned,     \* what filter() returned for each of them
    emitted,      \* what became visible: LOGGER.warning calls and passed records
    \* ---- one RedactingFilter instance and one record (SpecRedact)
    red_filter,   \* the instance's attributes (_patterns)
    red_record,   \* the record handed to filter(); its msg is rewritten in place
    red_input,    \* record.msg as it was before filter() ran
    red_ret,      \* <<>> before the call, <<value returned by filter()>> after it
    \* ---- one call of a SimpleLogger convenience method (SpecHash)
    call_msg,     \* the msg argument
    call_kwargs,  \* the keyword arguments: empty, or a "hash" entry
    called,       \* the method that ran ("" before the call)
    logged,       \* the self.log(level, msg) calls made, in order
    \* ---- the registry and the logging module's loggers (SpecCfg, SpecRace)
    LOGGERS,      \* the module's registry: name -> logger handle
    loggerDict,   \* logging's own table: name -> the Logger object of that name
    ncalls,       \* get_logger calls made so far
    first_call,   \* per name, the first get_logger call made for it
    last_call,    \* the get_logger call made last
    \* ---- threads inside get_logger (SpecRace)
    pc,           \* per thread, the statement of get_logger it executes next
    targs,        \* per thread, the arguments of its call
    tret,         \* per thread, what its call returned (None until it returns)
    \* ---- one configured logger that records are logged through (SpecPipe)
    pipe_logger,  \* the Logger object, with its filters' and handlers' state
    sinks,        \* per handler of the logger, the records it has emitted
    side_channel, \* the messages the filters passed to LOGGER.warning
    nlogged       \* log calls made so far

dupVars == <<dup, evaluated, returned, emitted>>
redVars == <<red_filter, red_record, red_input, red_ret>>
hashVars == <<call_msg, call_kwargs, called, logged>>
regVars == <<LOGGERS, loggerDict>>
cfgVars == <<ncalls, first_call, last_call>>
raceVars == <<pc, targs, tret>>
pipeVars == <<pipe_logger, sinks, side_channel, nlogged>>

vars == <<dupVars, redVars, hashVars, regVars, cfgVars, raceVars, pipeVars>>

\* An optional value: Python's None, or a value.
None == <<>>
Some(v) == <<v>>

\* Each specification below exercises one part of the module and leaves the
\* variables of the other parts at these values.
DupUnused ==
    /\ dup = <<>>
    /\ evaluated = <<>>
    /\ returned = <<>>
    /\ emitted = <<>>

RedUnused ==
    /\ red_filter = <<>>
    /\ red_record = <<>>
    /\ red_input = <<>>
    /\ red_ret = <<>>

HashUnused ==
    /\ call_msg = <<>>
    /\ call_kwargs = <<>>
    /\ called = ""
    /\ logged = <<>>

RegUnused ==
    /\ LOGGERS = <<>>
    /\ loggerDict = <<>>

CfgUnused ==
    /\ ncalls = 0
    /\ first_call = <<>>
    /\ last_call = <<>>

RaceUnused ==
    /\ pc = <<>>
    /\ targs = <<>>
    /\ tret = <<>>

PipeUnused ==
    /\ pipe_logger = <<>>
    /\ sinks = <<>>
    /\ side_channel = <<>>
    /\ nlogged = 0

\* ------------------------------------------------------------------ bounds

MaxRecords == 5
MaxParts == 4
MaxMsgLen == 4
MaxHashes == 2
MaxCalls == 2
MaxLogged == 3

\* --------------------------------------------------------- logging levels

NOTSET == 0
DEBUG == 10
INFO == 20
WARNING == 30
SUCCESS == 32
HASH == 33
ERROR == 40
CRITICAL == 50

\* The level names logging knows once a SimpleLogger exists.
LevelNames == {"DEBUG", "INFO", "WARNING", "SUCCESS", "HASH", "ERROR", "CRITICAL"}

\* logging._checkLevel for a level given by name; an unknown name raises.
checkLevel(level) ==
    CASE level = "DEBUG" -> DEBUG
      [] level = "INFO" -> INFO
      [] level = "WARNING" -> WARNING
      [] level = "SUCCESS" -> SUCCESS
      [] level = "HASH" -> HASH
      [] level = "ERROR" -> ERROR
      [] level = "CRITICAL" -> CRITICAL

\* ---------------------------------------------------------- DuplicateFilter

\* A freshly constructed DuplicateFilter has neither last_log nor
\* repeated_number: filter() reads both with getattr(self, ..., None).
DuplicateFilter == <<>>

HasAttr(self, name) == name \in DOMAIN self

SetAttr(self, name, value) == (name :> value) @@ self

\* current_log = (record.module, record.levelno, record.msg)
current_log(record) == <<record.module, record.levelno, record.msg>>

\* Truth value of getattr(self, "repeated_number", None): None and 0 are false.
repeated_number_exists(self) ==
    IF HasAttr(self, "repeated_number") THEN self.repeated_number # 0 ELSE FALSE

\* current_log != getattr(self, "last_log", None); a tuple never equals None.
differs_from_last_log(self, record) ==
    IF HasAttr(self, "last_log") THEN current_log(record) # self.last_log ELSE TRUE

\* f"Last log repeated {self.repeated_number} times."
RepeatedWarning(n) == <<"Last log repeated ", n, " times.">>

\* Mutant: the duplicate branch always stores 1 (the increment is lost).
DuplicateFilter_filter_NoIncrement(self, record) ==
    IF differs_from_last_log(self, record)
    THEN [self |-> SetAttr(SetAttr(self, "last_log", current_log(record)),
                           "repeated_number", 0),
          warned |-> IF repeated_number_exists(self)
                     THEN <<RepeatedWarning(self.repeated_number)>> ELSE <<>>,
          ret |-> TRUE]
    ELSE [self |-> SetAttr(self, "repeated_number", 1),
          warned |-> <<>>,
          ret |-> FALSE]

\* Mutant: the warning is logged whenever repeated_number is set, 0 included.
DuplicateFilter_filter_WarnOnZero(self, record) ==
    IF differs_from_last_log(self, record)
    THEN [self |-> SetAttr(SetAttr(self, "last_log", current_log(record)),
                           "repeated_number", 0),
          warned |-> IF HasAttr(self, "repeated_number")
                     THEN <<RepeatedWarning(self.repeated_number)>> ELSE <<>>,
          ret |-> TRUE]
    ELSE [self |-> SetAttr(self, "repeated_number",
                           IF repeated_number_exists(self)
                           THEN self.repeated_number + 1 ELSE 1),
          warned |-> <<>>,
          ret |-> FALSE]

\* DuplicateFilter.filter(record): the instance afterwards, the messages it
\* passed to LOGGER.warning (before returning), and the value it returns.
DuplicateFilter_filter(self, record) ==
    IF differs_from_last_log(self, record)
    THEN [self |-> SetAttr(SetAttr(self, "last_log", current_log(record)),
                           "repeated_number", 0),
          warned |-> IF repeated_number_exists(self)
                     THEN <<RepeatedWarning(self.repeated_number)>> ELSE <<>>,
          ret |-> TRUE]
    ELSE [self |-> SetAttr(self, "repeated_number",
                           IF repeated_number_exists(self)
                           THEN self.repeated_number + 1 ELSE 1),
          warned |-> <<>>,
          ret |-> FALSE]

\* ------------------------------------------------------------------ strings

\* Concatenation of a sequence of strings.
RECURSIVE Join(_)
Join(parts) ==
    IF parts = <<>> THEN <<>> ELSE Head(parts) \o Join(Tail(parts))

\* s[i:] in Python terms, for a 1-based i.
From(s, i) == SubSeq(s, i, Len(s))

\* t occurs in s starting at position i.
OccursAt(s, i, t) ==
    /\ i >= 1
    /\ i + Len(t) - 1 <= Len(s)
    /\ SubSeq(s, i, i + Len(t) - 1) = t

\* t in s
Contains(s, t) == \E i \in 1..(Len(s) + 1) : OccursAt(s, i, t)

\* What a left-to-right scan of part of a string has written, the position it
\* looks at next (positions before it lie inside a match already replaced)
\* and the number of replacements made.
Scanned(out, next, n) == [out |-> out, next |-> next, n |-> n]

\* The scan of an earlier part of the string followed by that of a later one.
ScannedBoth(earlier, later) ==
    Scanned(earlier.out \o later.out, later.next, later.n)

\* str.replace(old, new) at position i of s, the scan being at position next:
\* a position inside a replaced match is skipped; an empty old matches before
\* every character.
str_replace_at(s, old, new, i, next) ==
    IF i < next THEN Scanned(<<>>, next, 0)
    ELSE IF old = <<>> THEN Scanned(new \o <<s[i]>>, i + 1, 0)
    ELSE IF OccursAt(s, i, old) THEN Scanned(new, i + Len(old), 0)
    ELSE Scanned(<<s[i]>>, i + 1, 0)

\* str.replace(old, new) over s[lo..hi], positions left to right: the first
\* half of the positions, then the second half from where the first ended.
RECURSIVE str_replace_from(_, _, _, _, _, _)
RECURSIVE str_replace_then(_, _, _, _, _, _)

str_replace_from(s, old, new, lo, hi, next) ==
    IF lo > hi THEN Scanned(<<>>, next, 0)
    ELSE IF lo = hi THEN str_replace_at(s, old, new, lo, next)
    ELSE str_replace_then(s, old, new, (lo + hi) \div 2 + 1, hi,
                          str_replace_from(s, old, new, lo, (lo + hi) \div 2, next))

str_replace_then(s, old, new, lo, hi, earlier) ==
    ScannedBoth(earlier, str_replace_from(s, old, new, lo, hi, earlier.next))

\* s.replace(old, new): every non-overlapping occurrence, leftmost first; an
\* empty old also matches at the end of s.
str_replace(s, old, new) ==
    str_replace_from(s, old, new, 1, Len(s), 1).out
        \o (IF old = <<>> THEN new ELSE <<>>)

\* "*" * 5
Mask == <<"*", "*", "*", "*", "*">>

\* ---------------------------------------------------------- regular expression

\* \w of the re module, for the characters the model uses.
WordChars ==
    {"a", "b", "c", "d", "e", "f", "g", "h", "i", "j", "k", "l", "m",
     "n", "o", "p", "q", "r", "s", "t", "u", "v", "w", "x", "y", "z",
     "A", "B", "C", "D", "E", "F", "G", "H", "I", "J", "K", "L", "M",
     "N", "O", "P", "Q", "R", "S", "T", "U", "V", "W", "X", "Y", "Z",
     "0", "1", "2", "3", "4", "5", "6", "7", "8", "9", "_"}

\* \s of the re module.
SpaceChars == {" ", "\t", "\n", "\r", "\f"}

\* \W
NonWord(c) == c \notin WordChars

\* [^\s+]: neither whitespace nor a plus sign.
ValueChar(c) == c \notin SpaceChars /\ c # "+"

\* The end of the longest run of characters satisfying a class that starts
\* at position i (i - 1 when s[i] is not in the class).
RECURSIVE NonWordRunEnd(_, _)
NonWordRunEnd(s, i) ==
    IF i <= Len(s) /\ NonWord(s[i]) THEN NonWordRunEnd(s, i + 1) ELSE i - 1

RECURSIVE ValueRunEnd(_, _)
ValueRunEnd(s, i) ==
    IF i <= Len(s) /\ ValueChar(s[i]) THEN ValueRunEnd(s, i + 1) ELSE i - 1

\* \W+ ends at position last; [^\s+]+ must start at last + 1.  The engine
\* tries the longest \W+ first and gives characters back one at a time.
\* The result is the end of the match, or 0 when there is none.
RECURSIVE BacktrackNonWord(_, _, _)
BacktrackNonWord(s, first, last) ==
    IF last < first THEN 0
    ELSE IF last + 1 <= Len(s) /\ ValueChar(s[last + 1])
         THEN ValueRunEnd(s, last + 1)
         ELSE BacktrackNonWord(s, first, last - 1)

\* re match of rf"({pattern}\W+[^\s+]+)" at position i of s, for a pattern
\* without regular-expression metacharacters: the end of the match, or 0.
MatchEnd(pattern, s, i) ==
    IF ~OccursAt(s, i, pattern) THEN 0
    ELSE BacktrackNonWord(s, i + Len(pattern),
                          NonWordRunEnd(s, i + Len(pattern)))

\* re.IGNORECASE, an int flag; redact() passes it where re.sub takes count.
re_IGNORECASE == 2

\* What re.sub does at a position where a match ending at e was looked for
\* (e = 0: there is none).
re_sub_match(repl, s, i, n, e) ==
    IF e # 0 THEN Scanned(repl, e + 1, n + 1) ELSE Scanned(<<s[i]>>, i + 1, n)

\* re.sub at position i of s, the scan being at position next with n
\* replacements made: a position inside a replaced match is skipped, and once
\* count replacements are made (count # 0) the rest is copied.
re_sub_at(pattern, repl, s, count, i, next, n) ==
    IF i < next THEN Scanned(<<>>, next, n)
    ELSE IF count # 0 /\ n >= count THEN Scanned(<<s[i]>>, i + 1, n)
    ELSE re_sub_match(repl, s, i, n, MatchEnd(pattern, s, i))

\* re.sub over s[lo..hi], positions left to right: the first half of the
\* positions, then the second half from where the first ended.
RECURSIVE re_sub_from(_, _, _, _, _, _, _, _)
RECURSIVE re_sub_then(_, _, _, _, _, _, _)

re_sub_from(pattern, repl, s, count, lo, hi, next, n) ==
    IF lo > hi THEN Scanned(<<>>, next, n)
    ELSE IF lo = hi THEN re_sub_at(pattern, repl, s, count, lo, next, n)
    ELSE re_sub_then(pattern, repl, s, count, (lo + hi) \div 2 + 1, hi,
                     re_sub_from(pattern, repl, s, count, lo, (lo + hi) \div 2,
                                 next, n))

re_sub_then(pattern, repl, s, count, lo, hi, earlier) ==
    ScannedBoth(earlier,
                re_sub_from(pattern, repl, s, count, lo, hi,
                            earlier.next, earlier.n))

\* re.sub(pattern, repl, string, count): leftmost non-overlapping matches, at
\* most count of them (0: no limit).
re_sub(pattern, repl, s, count) ==
    re_sub_from(pattern, repl, s, count, 1, Len(s), 1, 0).out

\* ---------------------------------------------------------- RedactingFilter

\* RedactingFilter(patterns)
RedactingFilter(patterns) == [_patterns |-> patterns]

\* f"{pattern} {'*' * 5} "
Replacement(pattern) == pattern \o <<" ">> \o Mask \o <<" ">>

\* RedactingFilter.redact(msg): one re.sub per pattern, in list order, each on
\* the result of the one before.
RECURSIVE redact_loop(_, _)
redact_loop(patterns, msg) ==
    IF patterns = <<>> THEN msg
    ELSE redact_loop(Tail(patterns),
                     re_sub(Head(patterns), Replacement(Head(patterns)), msg,
                            re_IGNORECASE))

redact(self, msg) == redact_loop(self._patterns, msg)

\* RedactingFilter.filter(record): the record afterwards and the value returned.
RedactingFilter_filter(self, record) ==
    [record |-> [record EXCEPT !.msg = redact(self, record.msg)],
     ret |-> TRUE]

\* ------------------------------------------------------------- SimpleLogger

\* self.log(level, msg): the call as the logging machinery receives it.
LogCall(level, msg) == [levelno |-> level, msg |-> msg]

\* SimpleLogger.success(msg)
SimpleLogger_success(msg) == <<LogCall(SUCCESS, msg)>>

\* kwargs.pop("hash", [])
to_hash(kwargs) == IF "hash" \in DOMAIN kwargs THEN kwargs.hash ELSE <<>>

\* Mutant: only the first occurrence of each listed string is replaced.
RECURSIVE hash_loop_FirstOnly(_, _)
hash_loop_FirstOnly(hashes, msg) ==
    IF hashes = <<>> THEN msg
    ELSE LET h == Head(hashes)
             first == CHOOSE i \in 1..(Len(msg) + 1) :
                          /\ OccursAt(msg, i, h)
                          /\ \A j \in 1..(i - 1) : ~OccursAt(msg, j, h)
         IN hash_loop_FirstOnly(
                Tail(hashes),
                IF Contains(msg, h)
                THEN SubSeq(msg, 1, first - 1) \o Mask \o From(msg, first + Len(h))
                ELSE msg)

\* for hash in to_hash: msg = msg.replace(hash, "*****")
RECURSIVE hash_loop(_, _)
hash_loop(hashes, msg) ==
    IF hashes = <<>> THEN msg
    ELSE hash_loop(Tail(hashes), str_replace(msg, Head(hashes), Mask))

\* SimpleLogger.hash(msg, **kwargs)
SimpleLogger_hash(msg, kwargs) == <<LogCall(HASH, hash_loop(to_hash(kwargs), msg))>>

\* ---------------------------------------------------------------- get_logger

file_max_bytes_default == 104857600
file_backup_count_default == 20

\* A filter object attached to a logger or a handler.
DuplicateFilterObj == [kind |-> "DuplicateFilter", self |-> DuplicateFilter]
RedactingFilterObj(patterns) ==
    [kind |-> "RedactingFilter", self |-> RedactingFilter(patterns)]

\* logging.StreamHandler() with the formatter and a DuplicateFilter of its own.
ConsoleHandler ==
    [kind |-> "StreamHandler", level |-> NOTSET,
     formatter |-> "WrapperLogFormatter", filters |-> <<DuplicateFilterObj>>,
     filename |-> "", maxBytes |-> 0, backupCount |-> 0]

\* RotatingFileHandler(filename, maxBytes, backupCount) with the formatter
\* and the level.
FileHandler(args) ==
    [kind |-> "RotatingFileHandler", level |-> checkLevel(args.level),
     formatter |-> "WrapperLogFormatter", filters |-> <<>>,
     filename |-> args.filename[1], maxBytes |-> args.file_max_bytes,
     backupCount |-> args.file_backup_count]

\* What logging gives a logger it creates: SimpleLogger(name), level INFO.
SimpleLogger(name) ==
    [name |-> name, level |-> INFO, handlers |-> <<>>, filters |-> <<>>,
     propagate |-> TRUE]

\* logging.getLogger(name): the logger of that name, created on first use.
logging_getLogger(ld, name) ==
    IF name \in DOMAIN ld THEN ld ELSE (name :> SimpleLogger(name)) @@ ld

\* if console: ... logger_obj.addHandler(hdlr=console_handler)
AddConsoleHandler(ld, args) ==
    IF args.console
    THEN [ld EXCEPT ![args.name].handlers = Append(@, ConsoleHandler)]
    ELSE ld

\* logger_obj.setLevel(level=level) raises for a level logging does not know.
LevelRaises(args) == args.level \notin LevelNames

SetLevel(ld, args) == [ld EXCEPT ![args.name].level = checkLevel(args.level)]

\* logger_obj.addFilter(filter=DuplicateFilter())
AddDuplicateFilter(ld, args) ==
    [ld EXCEPT ![args.name].filters = Append(@, DuplicateFilterObj)]

\* if not mask_sensitive_patterns: the defaults replace None and an empty list.
MaskPatterns(args) ==
    IF args.mask_sensitive_patterns = None \/ args.mask_sensitive_patterns[1] = <<>>
    THEN <<<<"p", "a", "s", "s", "w", "o", "r", "d">>, <<"t", "o", "k", "e", "n">>,
           <<"a", "p", "i", "k", "e", "y">>, <<"s", "e", "c", "r", "e", "t">>>>
    ELSE args.mask_sensitive_patterns[1]

\* if mask_sensitive: ... logger_obj.addFilter(filter=RedactingFilter(...))
AddRedactingFilter(ld, args) ==
    IF args.mask_sensitive
    THEN [ld EXCEPT ![args.name].filters =
                        Append(@, RedactingFilterObj(MaskPatterns(args)))]
    ELSE ld

\* if filename: None and "" are both false.
WantsFile(args) == args.filename # None /\ args.filename[1] # ""

\* RotatingFileHandler(...) opens the file at once and raises when it cannot.
FileRaises(args, opens) == WantsFile(args) /\ ~opens

AddFileHandler(ld, args) ==
    IF WantsFile(args)
    THEN [ld EXCEPT ![args.name].handlers = Append(@, FileHandler(args))]
    ELSE ld

\* logger_obj.propagate = False
StopPropagation(ld, args) == [ld EXCEPT ![args.name].propagate = FALSE]

\* LOGGERS[name] = logger_obj; the handle is the logger's key in loggerDict.
Register(reg, args) == (args.name :> args.name) @@ reg

\* if LOGGERS.get(name): a Logger object is always true.
Cached(reg, args) == args.name \in DOMAIN reg

Outcome(reg, ld, ret, raised) ==
    [LOGGERS |-> reg, loggerDict |-> ld, ret |-> ret, raised |-> raised]

\* Mutant: the registry is not consulted, every call configures the logger.
get_logger_NoCache(reg, ld, args, opens) ==
    LET ld1 == AddConsoleHandler(logging_getLogger(ld, args.name), args)
    IN IF LevelRaises(args) THEN Outcome(reg, ld1, None, "ValueError")
       ELSE LET ld2 == AddRedactingFilter(
                           AddDuplicateFilter(SetLevel(ld1, args), args), args)
            IN IF FileRaises(args, opens) THEN Outcome(reg, ld2, None, "OSError")
               ELSE Outcome(Register(reg, args),
                            StopPropagation(AddFileHandler(ld2, args), args),
                            Some(args.name), "")

\* get_logger(name, level, filename, console, file_max_bytes,
\* file_backup_count, mask_sensitive, mask_sensitive_patterns), run from its
\* first line to its return or to the exception that ends it; opens tells
\* whether the log file can be opened.
get_logger(reg, ld, args, opens) ==
    IF Cached(reg, args) THEN Outcome(reg, ld, Some(reg[args.name]), "")
    ELSE LET ld1 == AddConsoleHandler(logging_getLogger(ld, args.name), args)
         IN IF LevelRaises(args) THEN Outcome(reg, ld1, None, "ValueError")
            ELSE LET ld2 == AddRedactingFilter(
                                AddDuplicateFilter(SetLevel(ld1, args), args), args)
                 IN IF FileRaises(args, opens)
                    THEN Outcome(reg, ld2, None, "OSError")
                    ELSE Outcome(Register(reg, args),
                                 StopPropagation(AddFileHandler(ld2, args), args),
                                 Some(args.name), "")

\* ------------------------------------------- a record's way through a logger

\* What a filter() call leaves behind: the filter objects and the record
\* afterwards, the value returned and what was passed to LOGGER.warning.
Filtered(filters, record, ret, warned) ==
    [filters |-> filters, record |-> record, ret |-> ret, warned |-> warned]

\* The same result with earlier LOGGER.warning messages put in front.
AfterWarnings(warned, result) == [result EXCEPT !.warned = warned \o @]

DuplicateFilterObj_result(f, record, r) ==
    Filtered(<<[f EXCEPT !.self = r.self]>>, record, r.ret, r.warned)

RedactingFilterObj_result(f, r) == Filtered(<<f>>, r.record, r.ret, <<>>)

\* One filter object's filter(record), by the class of the object.
FilterObj_filter(f, record) ==
    IF f.kind = "DuplicateFilter"
    THEN DuplicateFilterObj_result(f, record, DuplicateFilter_filter(f.self, record))
    ELSE RedactingFilterObj_result(f, RedactingFilter_filter(f.self, record))

\* logging.Filterer.filter(record): the filters in the order they were added,
\* from the i-th on; the first one that returns False ends the loop.
RECURSIVE Filterer_filter(_, _, _)
RECURSIVE Filterer_next(_, _, _)

Filterer_filter(filters, record, i) ==
    IF i > Len(filters)
    THEN Filtered(filters, record, TRUE, <<>>)
    ELSE Filterer_next(filters, i, FilterObj_filter(filters[i], record))

\* r is what the i-th filter did.
Filterer_next(filters, i, r) ==
    IF ~r.ret
    THEN Filtered([filters EXCEPT ![i] = r.filters[1]], r.record, FALSE, r.warned)
    ELSE AfterWarnings(r.warned,
             Filterer_filter([filters EXCEPT ![i] = r.filters[1]], r.record, i + 1))

Handled(handlers, out, warned) ==
    [handlers |-> handlers, out |-> out, warned |-> warned]

\* Logger.callHandlers(record): each handler from the i-th on whose level
\* admits the record runs its own filters (Handler.handle) and emits the
\* record if they pass.
RECURSIVE callHandlers(_, _, _, _)
RECURSIVE Handler_handle(_, _, _, _)

callHandlers(handlers, out, record, i) ==
    IF i > Len(handlers) THEN Handled(handlers, out, <<>>)
    ELSE IF record.levelno < handlers[i].level
    THEN callHandlers(handlers, out, record, i + 1)
    ELSE Handler_handle(handlers, out, i,
                        Filterer_filter(handlers[i].filters, record, 1))

\* r is what the i-th handler's filters did.
Handler_handle(handlers, out, i, r) ==
    AfterWarnings(r.warned,
        callHandlers([handlers EXCEPT ![i].filters = r.filters],
                     IF r.ret THEN [out EXCEPT ![i] = Append(@, r.record)] ELSE out,
                     r.record, i + 1))

Logged(lg, out, warned) == [logger |-> lg, out |-> out, warned |-> warned]

Logger_callHandlers(lg, h, warned) ==
    Logged([lg EXCEPT !.handlers = h.handlers], h.out, warned \o h.warned)

\* Logger.handle(record), r being what the logger's own filters did.
Logger_handle(lg, out, r) ==
    IF ~r.ret
    THEN Logged([lg EXCEPT !.filters = r.filters], out, r.warned)
    ELSE Logger_callHandlers([lg EXCEPT !.filters = r.filters],
                             callHandlers(lg.handlers, out, r.record, 1),
                             r.warned)

\* Logger.log(level, msg) called from the given module: isEnabledFor(level),
\* then the record goes through the logger's filters and on to its handlers.
Logger_log(lg, out, module, level, msg) ==
    IF level < lg.level THEN Logged(lg, out, <<>>)
    ELSE Logger_handle(lg, out,
             Filterer_filter(lg.filters,
                             [module |-> module, levelno |-> level, msg |-> msg],
                             1))

\* ------------------------------------------------- SpecDup: one filter instance

DupModules == {"app", "db"}
DupLevels == {INFO, WARNING}
DupMsgs == {<<"a">>, <<"b">>}
DupRecords == [module : DupModules, levelno : DupLevels, msg : DupMsgs]

WarningEvent(text, at) == [kind |-> "warning", text |-> text, at |-> at]
RecordEvent(at) == [kind |-> "record", text |-> <<>>, at |-> at]

WarningEvents(texts, at) == [i \in 1..Len(texts) |-> WarningEvent(texts[i], at)]

DupStart ==
    /\ dup = DuplicateFilter
    /\ evaluated = <<>>
    /\ returned = <<>>
    /\ emitted = <<>>

InitDup == DupStart /\ RedUnused /\ HashUnused /\ RegUnused /\ CfgUnused /\ RaceUnused /\ PipeUnused

\* One record goes through dup.filter(); a record that passes is emitted after
\* whatever the filter logged on the way.
Filter(record) ==
    /\ Len(evaluated) < MaxRecords
    /\ LET r == DuplicateFilter_filter(dup, record)
           at == Len(evaluated) + 1
       IN /\ dup' = r.self
          /\ evaluated' = Append(evaluated, record)
          /\ returned' = Append(returned, r.ret)
          /\ emitted' = emitted \o WarningEvents(r.warned, at)
                                \o (IF r.ret THEN <<RecordEvent(at)>> ELSE <<>>)
    /\ UNCHANGED <<redVars, hashVars, regVars, cfgVars, raceVars, pipeVars>>

NextDup == \E record \in DupRecords : Filter(record)

SpecDup == InitDup /\ [][NextDup]_vars

\* --------------------------------- SpecRedact: one RedactingFilter, one record

password == <<"p", "a", "s", "s", "w", "o", "r", "d">>
token == <<"t", "o", "k", "e", "n">>
apikey == <<"a", "p", "i", "k", "e", "y">>
secret == <<"s", "e", "c", "r", "e", "t">>

\* ["password", "token", "apikey", "secret"]
DefaultPatterns == <<password, token, apikey, secret>>

\* The patterns and the messages of the module's own demonstration.
DemoPatterns == <<password, token>>

ThisIsMy == <<"T", "h", "i", "s", " ", "i", "s", " ", "m", "y", " ">>

DemoMessages ==
    {ThisIsMy \o password \o <<":", " ", "p", "a", "s", "s", "1", "2", "3">>,
     ThisIsMy \o token \o <<" ", "t", "o", "k", "4", "5", "6", "!">>,
     ThisIsMy \o apikey \o <<" ", "-", " ", "a", "p", "i", "#", "$", "7", "8", "9">>,
     ThisIsMy \o secret
         \o <<" ", "-", ">", " ", "s", "e", "c", "1", "2", "3", "4", "a", "b", "c">>}

\* Messages are put together from these pieces.
RedactParts ==
    {password, token, <<":">>, <<" ">>, <<"a">>, <<"+">>, <<"*">>,
     password \o <<":", " ", "a", " ">>}

RedactMessages ==
    DemoMessages
    \cup {Join(ps) : ps \in UNION {[1..n -> RedactParts] : n \in 0..MaxParts}}

RedactPatternLists ==
    {<<>>, <<password>>, <<token>>, DemoPatterns, <<token, password>>,
     DefaultPatterns}

RedactModules == {"app"}
RedactLevels == {INFO}

RedStart ==
    /\ red_filter \in {RedactingFilter(ps) : ps \in RedactPatternLists}
    /\ red_record \in [module : RedactModules, levelno : RedactLevels,
                       msg : RedactMessages]
    /\ red_input = red_record.msg
    /\ red_ret = <<>>

InitRedact == RedStart /\ DupUnused /\ HashUnused /\ RegUnused /\ CfgUnused /\ RaceUnused /\ PipeUnused

\* The logging machinery hands the record to the filter once.
Redact ==
    /\ red_ret = <<>>
    /\ LET r == RedactingFilter_filter(red_filter, red_record)
       IN /\ red_record' = r.record
          /\ red_ret' = <<r.ret>>
    /\ UNCHANGED <<red_filter, red_input, dupVars, hashVars, regVars, cfgVars, raceVars, pipeVars>>

NextRedact == Redact

SpecRedact == InitRedact /\ [][NextRedact]_vars

\* ------------------------------------- SpecHash: one call of success() or hash()

HashAlphabet == {"a", "b", "*"}

HashMessages ==
    {<<"s", "e", "c", "r", "e", "t", " ", "i", "s", " ", "X">>}
    \cup UNION {[1..n -> HashAlphabet] : n \in 0..MaxMsgLen}

\* The strings a caller may list to be hidden.
HashStrings ==
    {<<"X">>, <<>>, <<"a">>, <<"b">>, <<"a", "b">>, <<"a", "a">>, <<"*">>,
     <<"*", "b">>}

HashLists == UNION {[1..n -> HashStrings] : n \in 0..MaxHashes}

HashKwargs == {<<>>} \cup {[hash |-> hs] : hs \in HashLists}

HashStart ==
    /\ call_msg \in HashMessages
    /\ call_kwargs \in HashKwargs
    /\ called = ""
    /\ logged = <<>>

InitHash == HashStart /\ DupUnused /\ RedUnused /\ RegUnused /\ CfgUnused /\ RaceUnused /\ PipeUnused

\* logger.success(msg)
Success ==
    /\ called = ""
    /\ call_kwargs = <<>>
    /\ called' = "success"
    /\ logged' = logged \o SimpleLogger_success(call_msg)
    /\ UNCHANGED <<call_msg, call_kwargs, dupVars, redVars, regVars, cfgVars, raceVars, pipeVars>>

\* logger.hash(msg, hash=[...]) or logger.hash(msg)
Hash ==
    /\ called = ""
    /\ called' = "hash"
    /\ logged' = logged \o SimpleLogger_hash(call_msg, call_kwargs)
    /\ UNCHANGED <<call_msg, call_kwargs, dupVars, redVars, regVars, cfgVars, raceVars, pipeVars>>

NextHash == Success \/ Hash

SpecHash == InitHash /\ [][NextHash]_vars

\* --------------------------------------- SpecCfg: get_logger calls, one thread

CfgNames == {"x", "y"}
CfgLevels == {"DEBUG", "BOGUS"}
CfgFilenames == {None, Some("app.log")}
CfgPatterns == {None, Some(<<>>), Some(<<token>>)}

CfgArgs ==
    {a \in [name : CfgNames, level : CfgLevels, filename : CfgFilenames,
            console : BOOLEAN, file_max_bytes : {file_max_bytes_default},
            file_backup_count : {file_backup_count_default},
            mask_sensitive : BOOLEAN, mask_sensitive_patterns : CfgPatterns] :
        ~a.mask_sensitive => a.mask_sensitive_patterns = None}

CallRecord(args, r) == [args |-> args, ret |-> r.ret, raised |-> r.raised]

InitCfg ==
    /\ LOGGERS = <<>>
    /\ loggerDict = <<>>
    /\ ncalls = 0
    /\ first_call = <<>>
    /\ last_call = <<>>
    /\ DupUnused /\ RedUnused /\ HashUnused /\ RaceUnused /\ PipeUnused

\* One call of get_logger, from start to return or exception.
GetLogger(args, opens) ==
    /\ ncalls < MaxCalls
    /\ LET r == get_logger(LOGGERS, loggerDict, args, opens)
       IN /\ LOGGERS' = r.LOGGERS
          /\ loggerDict' = r.loggerDict
          /\ last_call' = CallRecord(args, r)
          /\ first_call' = IF args.name \in DOMAIN first_call THEN first_call
                           ELSE (args.name :> CallRecord(args, r)) @@ first_call
    /\ ncalls' = ncalls + 1
    /\ UNCHANGED <<dupVars, redVars, hashVars, raceVars, pipeVars>>

NextCfg ==
    \E args \in CfgArgs : \E opens \in BOOLEAN :
        (opens \/ WantsFile(args)) /\ GetLogger(args, opens)

SpecCfg == InitCfg /\ [][NextCfg]_vars

\* ------------------------- SpecRace: two threads in get_logger for one name

Threads == {"t1", "t2"}

RaceArgs ==
    [name : {"x"}, level : {"DEBUG", "BOGUS"}, filename : {None},
     console : BOOLEAN, file_max_bytes : {file_max_bytes_default},
     file_backup_count : {file_backup_count_default},
     mask_sensitive : BOOLEAN, mask_sensitive_patterns : {None}]

InitRace ==
    /\ LOGGERS = <<>>
    /\ loggerDict = <<>>
    /\ pc = [t \in Threads |-> "check"]
    /\ targs \in [Threads -> RaceArgs]
    /\ tret = [t \in Threads |-> None]
    /\ DupUnused /\ RedUnused /\ HashUnused /\ CfgUnused /\ PipeUnused

Goto(t, label) == pc' = [pc EXCEPT ![t] = label]

RaceFrame == UNCHANGED <<targs, dupVars, redVars, hashVars, cfgVars, pipeVars>>

\* if LOGGERS.get(name): return LOGGERS[name]
CheckCache(t) ==
    /\ pc[t] = "check"
    /\ IF Cached(LOGGERS, targs[t])
       THEN /\ tret' = [tret EXCEPT ![t] = Some(LOGGERS[targs[t].name])]
            /\ Goto(t, "done")
       ELSE /\ tret' = tret
            /\ Goto(t, "getLogger")
    /\ UNCHANGED regVars
    /\ RaceFrame

\* logger_obj = logging.getLogger(name)
GetLoggerObj(t) ==
    /\ pc[t] = "getLogger"
    /\ loggerDict' = logging_getLogger(loggerDict, targs[t].name)
    /\ Goto(t, "console")
    /\ UNCHANGED <<LOGGERS, tret>>
    /\ RaceFrame

\* if console: ... logger_obj.addHandler(hdlr=console_handler)
Console(t) ==
    /\ pc[t] = "console"
    /\ loggerDict' = AddConsoleHandler(loggerDict, targs[t])
    /\ Goto(t, "setLevel")
    /\ UNCHANGED <<LOGGERS, tret>>
    /\ RaceFrame

\* logger_obj.setLevel(level=level), which ends the call when it raises
SetLoggerLevel(t) ==
    /\ pc[t] = "setLevel"
    /\ IF LevelRaises(targs[t])
       THEN /\ loggerDict' = loggerDict
            /\ Goto(t, "raised")
       ELSE /\ loggerDict' = SetLevel(loggerDict, targs[t])
            /\ Goto(t, "addFilter")
    /\ UNCHANGED <<LOGGERS, tret>>
    /\ RaceFrame

\* logger_obj.addFilter(filter=DuplicateFilter())
AddFilter(t) ==
    /\ pc[t] = "addFilter"
    /\ loggerDict' = AddDuplicateFilter(loggerDict, targs[t])
    /\ Goto(t, "mask")
    /\ UNCHANGED <<LOGGERS, tret>>
    /\ RaceFrame

\* if mask_sensitive: ... logger_obj.addFilter(filter=RedactingFilter(...))
MaskSensitive(t) ==
    /\ pc[t] = "mask"
    /\ loggerDict' = AddRedactingFilter(loggerDict, targs[t])
    /\ Goto(t, "file")
    /\ UNCHANGED <<LOGGERS, tret>>
    /\ RaceFrame

\* if filename: ... logger_obj.addHandler(hdlr=log_handler)
File(t) ==
    /\ pc[t] = "file"
    /\ loggerDict' = AddFileHandler(loggerDict, targs[t])
    /\ Goto(t, "propagate")
    /\ UNCHANGED <<LOGGERS, tret>>
    /\ RaceFrame

\* logger_obj.propagate = False
Propagate(t) ==
    /\ pc[t] = "propagate"
    /\ loggerDict' = StopPropagation(loggerDict, targs[t])
    /\ Goto(t, "register")
    /\ UNCHANGED <<LOGGERS, tret>>
    /\ RaceFrame

\* LOGGERS[name] = logger_obj
RegisterLogger(t) ==
    /\ pc[t] = "register"
    /\ LOGGERS' = Register(LOGGERS, targs[t])
    /\ Goto(t, "return")
    /\ UNCHANGED <<loggerDict, tret>>
    /\ RaceFrame

\* return logger_obj
Return(t) ==
    /\ pc[t] = "return"
    /\ tret' = [tret EXCEPT ![t] = Some(targs[t].name)]
    /\ Goto(t, "done")
    /\ UNCHANGED regVars
    /\ RaceFrame

NextRace ==
    \E t \in Threads :
        \/ CheckCache(t)
        \/ GetLoggerObj(t)
        \/ Console(t)
        \/ SetLoggerLevel(t)
        \/ AddFilter(t)
        \/ MaskSensitive(t)
        \/ File(t)
        \/ Propagate(t)
        \/ RegisterLogger(t)
        \/ Return(t)

SpecRace == InitRace /\ [][NextRace]_vars

\* ------------------------ SpecPipe: records logged through a configured logger

\* get_logger(name="app", console=True, filename="app.log", ...)
PipeArgs ==
    [name : {"app"}, level : {"DEBUG", "INFO"}, filename : {Some("app.log")},
     console : {TRUE}, file_max_bytes : {file_max_bytes_default},
     file_backup_count : {file_backup_count_default},
     mask_sensitive : BOOLEAN, mask_sensitive_patterns : {None}]

PipeModules == {"main", "db"}
PipeLevels == {DEBUG, INFO, WARNING}
PipeMsgs ==
    {<<"u", "p">>,
     token \o <<":", " ", "a">>,
     token \o <<":", " ", "b">>}

\* The logger a first get_logger call with these arguments configures.
Configured(args) == get_logger(<<>>, <<>>, args, TRUE).loggerDict[args.name]

InitPipe ==
    /\ pipe_logger \in {Configured(args) : args \in PipeArgs}
    /\ sinks = [i \in 1..Len(pipe_logger.handlers) |-> <<>>]
    /\ side_channel = <<>>
    /\ nlogged = 0
    /\ DupUnused /\ RedUnused /\ HashUnused /\ RegUnused /\ CfgUnused /\ RaceUnused

\* logger.debug(msg), logger.info(msg) or logger.warning(msg) in some module
Log(module, level, msg) ==
    /\ nlogged < MaxLogged
    /\ LET r == Logger_log(pipe_logger, sinks, module, level, msg)
       IN /\ pipe_logger' = r.logger
          /\ sinks' = r.out
          /\ side_channel' = side_channel \o r.warned
    /\ nlogged' = nlogged + 1
    /\ UNCHANGED <<dupVars, redVars, hashVars, regVars, cfgVars, raceVars>>

NextPipe ==
    \E module \in PipeModules : \E level \in PipeLevels : \E msg \in PipeMsgs :
        Log(module, level, msg)

SpecPipe == InitPipe /\ [][NextPipe]_vars

\* ---------------------------------------------------------------- C1, C2

SameLog(i, j) ==
    /\ evaluated[i].module = evaluated[j].module
    /\ evaluated[i].levelno = evaluated[j].levelno
    /\ evaluated[i].msg = evaluated[j].msg

\* Record i repeats the record evaluated just before it.
Repeats(i) == i > 1 /\ SameLog(i, i - 1)

\* The number of repeats that immediately precede position i.
RunBefore(i) ==
    CHOOSE n \in 0..Len(evaluated) :
        /\ \A j \in (i - n)..(i - 1) : Repeats(j)
        /\ (i - n - 1 >= 1 => ~Repeats(i - n - 1))

EventsAt(kind, i) ==
    {e \in 1..Len(emitted) : emitted[e].kind = kind /\ emitted[e].at = i}

\* C1: a record passes the filter iff it is the first record the instance
\* evaluates or its (module, level, message) differs from that of the record
\* evaluated just before it; every other record is suppressed, and after
\* k >= 1 consecutive suppressed records repeated_number is k.
C1_PassesIffDistinct ==
    /\ \A i \in 1..Len(evaluated) : returned[i] <=> ~Repeats(i)
    /\ LET k == RunBefore(Len(evaluated) + 1)
       IN k >= 1 => dup.repeated_number = k

\* Three identical records after a different one: the last two are suppressed.
C1_Witness ==
    /\ Len(evaluated) >= 4
    /\ returned[1] /\ returned[2] /\ ~returned[3] /\ ~returned[4]
    /\ dup.repeated_number = 2

\* C2: when a distinct record follows N >= 1 suppressed duplicates, exactly one
\* warning "Last log repeated N times." is emitted, before the distinct record
\* itself; the first record and a distinct record that follows no suppressed
\* duplicate cause no warning, and neither does a suppressed record.
C2_OneWarningPerRun ==
    \A i \in 1..Len(evaluated) :
        LET n == RunBefore(i)
            warnings == EventsAt("warning", i)
            passes == EventsAt("record", i)
        IN IF ~Repeats(i) /\ n >= 1
           THEN /\ Cardinality(warnings) = 1
                /\ Cardinality(passes) = 1
                /\ \A w \in warnings :
                      /\ emitted[w].text = <<"Last log repeated ", n, " times.">>
                      /\ \A p \in passes : w < p
           ELSE warnings = {}

\* A run of two suppressed duplicates has been reported and the distinct record
\* that ended it has passed.
C2_Witness ==
    \E i \in 1..Len(evaluated) :
        /\ RunBefore(i) = 2
        /\ returned[i]
        /\ \E w \in EventsAt("warning", i) :
              emitted[w].text = <<"Last log repeated ", 2, " times.">>

\* ---------------------------------------------------------------- C4, C10

\* The message before the k-th pattern is applied, and after it.
StepInput(k) == redact_loop(SubSeq(red_filter._patterns, 1, k - 1), red_input)
StepOutput(k) ==
    IF k = Len(red_filter._patterns) THEN red_record.msg
    ELSE redact_loop(SubSeq(red_filter._patterns, 1, k), red_input)

\* In m, kw at position i is followed by one or more non-word characters
\* that end just before position j, where a non-whitespace token starts.
TokenStartsAt(m, kw, i, j) ==
    /\ OccursAt(m, i, kw)
    /\ i + Len(kw) < j
    /\ j <= Len(m)
    /\ \A k \in (i + Len(kw))..(j - 1) : NonWord(m[k])
    /\ m[j] \notin SpaceChars

SpanAt(m, kw, i) == \E j \in 1..Len(m) : TokenStartsAt(m, kw, i, j)

HasSpan(m, kw) == \E i \in 1..Len(m) : SpanAt(m, kw, i)

\* The first span: the leftmost keyword position that starts one.
FirstSpan(m, kw) ==
    CHOOSE i \in 1..Len(m) :
        SpanAt(m, kw, i) /\ \A h \in 1..(i - 1) : ~SpanAt(m, kw, h)

\* Its value token: the non-whitespace characters after the longest stretch
\* of non-word characters that leaves a token, up to the next whitespace.
FirstToken(m, kw) ==
    LET i == FirstSpan(m, kw)
        j == CHOOSE j \in 1..Len(m) :
                 /\ TokenStartsAt(m, kw, i, j)
                 /\ \A h \in (j + 1)..Len(m) : ~TokenStartsAt(m, kw, i, h)
        e == CHOOSE e \in j..Len(m) :
                 /\ \A k \in j..e : m[k] \notin SpaceChars
                 /\ (e < Len(m) => m[e + 1] \in SpaceChars)
    IN SubSeq(m, j, e)

Occurrences(s, t) == {i \in 1..Len(s) : OccursAt(s, i, t)}

\* The token is text of the message in its span only, and not text of what
\* replaces the span.
OnlyInSpan(m, kw) ==
    /\ Cardinality(Occurrences(m, FirstToken(m, kw))) = 1
    /\ ~Contains(Replacement(kw), FirstToken(m, kw))

\* C4 (the claim as stated): filter() returns True, and for each keyword in
\* list order, applied to the result of the one before: if the message has
\* the keyword followed by one or more non-word characters followed by a
\* non-whitespace token, the message afterwards contains "<keyword> *****"
\* and the value token of the first such span is gone from it.
C4_FirstSpanMasked ==
    red_ret # <<>> =>
        /\ red_ret = <<TRUE>>
        /\ \A k \in 1..Len(red_filter._patterns) :
              LET kw == red_filter._patterns[k]
                  m == StepInput(k)
                  out == StepOutput(k)
              IN HasSpan(m, kw) =>
                    /\ Contains(out, kw \o <<" ">> \o Mask)
                    /\ OnlyInSpan(m, kw) => ~Contains(out, FirstToken(m, kw))

\* The message with every match of the keyword's pattern replaced, however
\* many there are (the scan of re.sub without a limit).
EveryMatchMasked(kw, m) == re_sub(kw, Replacement(kw), m, 0)

\* C10 (the claim as stated): filter() leaves no match unmasked: for each
\* keyword, every occurrence of the keyword followed by non-word characters
\* and a value token, whether there are 1, 2, 3 or more of them in the
\* message the keyword is applied to, has its value replaced by the mask.
C10_EveryMatchMasked ==
    red_ret # <<>> =>
        \A k \in 1..Len(red_filter._patterns) :
            StepOutput(k) = EveryMatchMasked(red_filter._patterns[k], StepInput(k))

\* -------------------------------------------------------------------- C5

Listed == to_hash(call_kwargs)

ListedStrings == {Listed[k] : k \in 1..Len(Listed)}

\* A listed string that the masks themselves cannot spell out.
Maskable(h) == h # <<>> /\ \A i \in 1..Len(h) : h[i] # "*"

\* C5 (the claim as stated): hash() logs once, at HASH (33), a message that
\* contains none of the listed strings; with no list or an empty one the
\* message is logged as it is.
C5_NoListedStringLogged ==
    called = "hash" =>
        /\ Len(logged) = 1
        /\ logged[1].levelno = 33
        /\ \A h \in ListedStrings : ~Contains(logged[1].msg, h)
        /\ Listed = <<>> => logged[1].msg = call_msg

\* C5 (amended): hash() logs once, at HASH (33), a message that contains none
\* of the listed strings that are non-empty and free of "*"; a message in
\* which no listed string occurs, and so any message with no list or an empty
\* one, is logged as it is.
C5_NoMaskableStringLogged ==
    called = "hash" =>
        /\ Len(logged) = 1
        /\ logged[1].levelno = 33
        /\ \A h \in ListedStrings : Maskable(h) => ~Contains(logged[1].msg, h)
        /\ (\A h \in ListedStrings : ~Contains(call_msg, h)) =>
               logged[1].msg = call_msg

\* hash() ran on a message that held a listed string twice, and on the
\* documented example.
C5_Witness ==
    /\ called = "hash"
    /\ \E h \in ListedStrings :
          /\ Maskable(h)
          /\ Cardinality(Occurrences(call_msg, h)) >= 2
          /\ ~Contains(logged[1].msg, h)
          /\ Contains(logged[1].msg, Mask)

\* ------------------------------------------------------------ C3, C6, C7, C8

\* The positions of a logger's handlers or filters of one kind.
OfKind(objs, kind) == {i \in 1..Len(objs) : objs[i].kind = kind}

ConsoleHandlers(lg) == OfKind(lg.handlers, "StreamHandler")
DuplicateFilters(lg) == OfKind(lg.filters, "DuplicateFilter")
RedactingFilters(lg) == OfKind(lg.filters, "RedactingFilter")

\* C3: a get_logger call for a name that is in the registry returns the
\* handle the registering call returned and leaves every logger's handlers,
\* filters, level and propagate flag, and the registry itself, as they were,
\* whatever its other arguments are.
C3_CachedCallChangesNothing ==
    [][ncalls' = ncalls + 1 =>
           LET call == last_call'
               n == call.args.name
           IN /\ (call.raised = "" => call.ret = Some(LOGGERS'[n]))
              /\ (n \in DOMAIN LOGGERS =>
                     /\ call.raised = ""
                     /\ call.ret = Some(LOGGERS[n])
                     /\ loggerDict' = loggerDict
                     /\ LOGGERS' = LOGGERS)]_vars

\* A name was configured with a console handler, and a later call for it
\* with console=False and other options returned the same handle; the
\* console handler is still there and no file handler was added.
C3_Witness ==
    /\ ncalls >= 2
    /\ last_call.args.name \in DOMAIN first_call
    /\ LET c1 == first_call[last_call.args.name]
           lg == loggerDict[last_call.args.name]
       IN /\ c1.raised = "" /\ last_call.raised = ""
          /\ c1.args.console /\ ~last_call.args.console
          /\ c1.args.filename = None /\ last_call.args.filename # None
          /\ c1.ret = last_call.ret
          /\ Cardinality(ConsoleHandlers(lg)) = 1
          /\ Len(lg.handlers) = 1

\* C6 (the claim as stated): after a successful first call for a name, the
\* logger has exactly one RedactingFilter when mask_sensitive is true, with
\* the caller's patterns whenever they are given, the empty list included,
\* and with the defaults only when they are None; and it has no
\* RedactingFilter when mask_sensitive is false.
C6_PatternsAsGiven ==
    \A n \in DOMAIN first_call :
        LET call == first_call[n]
            lg == loggerDict[n]
        IN call.raised = "" =>
              IF call.args.mask_sensitive
              THEN /\ Cardinality(RedactingFilters(lg)) = 1
                   /\ \A i \in RedactingFilters(lg) :
                         lg.filters[i].self._patterns =
                             IF call.args.mask_sensitive_patterns = None
                             THEN DefaultPatterns
                             ELSE call.args.mask_sensitive_patterns[1]
              ELSE RedactingFilters(lg) = {}

\* C8 (the claim as stated): a call that fails leaves no handler and no
\* filter on the named logger and no registry entry, so a logger that a later
\* call registers has at most one console handler and exactly one
\* logger-level DuplicateFilter.
C8_FailedCallLeavesNothing ==
    /\ \A n \in DOMAIN loggerDict :
          n \notin DOMAIN LOGGERS =>
              loggerDict[n].handlers = <<>> /\ loggerDict[n].filters = <<>>
    /\ \A n \in DOMAIN LOGGERS :
          /\ Cardinality(ConsoleHandlers(loggerDict[n])) <= 1
          /\ Cardinality(DuplicateFilters(loggerDict[n])) = 1

\* C7 (the claim as stated): also with two threads interleaved in first
\* calls for the same name, the logger never has more than one console
\* handler nor more than one logger-level DuplicateFilter, and the calls that
\* return all return the same handle.
C7_OneConfiguredInstance ==
    /\ \A n \in DOMAIN loggerDict :
          /\ Cardinality(ConsoleHandlers(loggerDict[n])) <= 1
          /\ Cardinality(DuplicateFilters(loggerDict[n])) <= 1
    /\ \A t, u \in DOMAIN tret :
          tret[t] # None /\ tret[u] # None => tret[t] = tret[u]

\* -------------------------------------------------------------------- C9

SinkOf(kind) ==
    sinks[CHOOSE i \in 1..Len(pipe_logger.handlers) :
              pipe_logger.handlers[i].kind = kind]

\* C9 (the claim as stated): with a console sink and a file sink, with or
\* without mask_sensitive, both sinks emit the same sequence of records: the
\* console handler's DuplicateFilter suppresses nothing that passed the
\* logger's own filters.
C9_ConsoleSameAsFile == SinkOf("StreamHandler") = SinkOf("RotatingFileHandler")

====
